---- MODULE Spec2Model ----
(***************************************************************************)
(* Job queue and transcription worker of cdf-stt: the Redis job store      *)
(* (one hash per job, with a TTL), the pending-id list, and the worker     *)
(* loop that claims jobs and writes their outcome.                         *)
(*                                                                         *)
(* Time is counted in days.  Python values are pairs <<type, text>>; the   *)
(* Redis hash of a job maps field names to the text Redis stores.          *)
(***************************************************************************)
EXTENDS Integers, Sequences, FiniteSets, TLC

\* ---------------------------------------------------------------- bounds
MaxJobs == 2
MaxTicks == 1
MaxFaults == 1

\* ------------------------------------------------------ program constants
JOB_TTL == 7

\* JobStatus members: the value of each member (the str it compares equal to)
QUEUED == "queued"
PROCESSING == "processing"
COMPLETED == "completed"
FAILED == "failed"

WorkerIds == {1, 2}
SubIds == {1}
JobIds == 1..MaxJobs

\* ---------------------------------------------------------- Python values
PyNone == <<"NoneType", "None">>
PyStr(s) == <<"str", s>>
PyInt(s) == <<"int", s>>
PyDict(s) == <<"dict", s>>
PyStatus(s) == <<"JobStatus", s>>

\* str(member) of a (str, Enum) class is "ClassName.MEMBER", not the value
EnumStr(s) ==
    CASE s = QUEUED -> "JobStatus.QUEUED"
      [] s = PROCESSING -> "JobStatus.PROCESSING"
      [] s = COMPLETED -> "JobStatus.COMPLETED"
      [] s = FAILED -> "JobStatus.FAILED"

\* str(v)
Str(v) == IF v[1] = "JobStatus" THEN EnumStr(v[2]) ELSE v[2]

\* json.dumps(d) of a dict whose items are d[2]
JsonDumps(d) == "{" \o d[2] \o "}"

\* a == b in Python: a JobStatus member is a str and compares by its value
PyBase(x) == IF x[1] = "JobStatus" THEN "str" ELSE x[1]
PyEq(a, b) == PyBase(a) = PyBase(b) /\ a[2] = b[2]

\* ------------------------------------------------------------ input domains
AudioPaths == {"a.wav", "123"}
ParamDicts == {PyDict("\"language\": null")}
TranscribeResults == {PyDict("\"text\": \"hi\", \"duration\": 1.0")}
TranscribeErrors == {"file not found"}
RedisError == "Error 111 connecting to localhost:6379. Connection refused."
CleanupDays == {1}
TickDays == {2, 7}
HSetFail == {"none", "hset"}
PublishFail == {"none", "publish"}

\* result["processing_time"] = processing_time
WithProcessingTime(r) == PyDict(r[2] \o ", \"processing_time\": 0.5")

KnownDicts ==
    ParamDicts \cup TranscribeResults \cup {WithProcessingTime(r) : r \in TranscribeResults}
JsonIntTexts == {"0", "10", "100", "123"}

\* the texts that json.loads turns into a dict, and the dict of each
DictTexts == {JsonDumps(d) : d \in KnownDicts}
DictOfText == [s \in DictTexts |-> CHOOSE d \in KnownDicts : JsonDumps(d) = s]

\* the int json.loads returns for the text of an int
JsonInt(s) ==
    CASE s = "0" -> 0
      [] s = "10" -> 10
      [] s = "100" -> 100
      [] s = "123" -> 123
      [] OTHER -> -1

\* try: json.loads(value)  except: value
JsonLoadsOrRaw(s) ==
    IF s \in JsonIntTexts THEN PyInt(s)
    ELSE IF s \in DictTexts THEN DictOfText[s]
    ELSE PyStr(s)

\* ------------------------------------------------------------- Redis hashes
StrFields == {"status", "audio_path", "params", "progress", "result", "error"}
NumFields == {"job_id", "created_at", "started_at", "completed_at"}
CreationFields == {"job_id", "status", "audio_path", "params", "progress", "created_at"}

EmptyHash ==
    [fields |-> {}, sv |-> [f \in StrFields |-> ""], nv |-> [f \in NumFields |-> 0]]

\* mutant: the mapping replaces the hash
HSet_Replace(h, m) == m

\* HSET key mapping: the given fields are written, the others keep their value
HSet(h, m) ==
    [fields |-> h.fields \cup m.fields,
     sv |-> [f \in StrFields |-> IF f \in m.fields THEN m.sv[f] ELSE h.sv[f]],
     nv |-> [f \in NumFields |-> IF f \in m.fields THEN m.nv[f] ELSE h.nv[f]]]

VARIABLES
    store,        \* job id -> Redis hash "job:<id>" (no fields: the key does not exist)
    expiry,       \* job id -> <<>> (no TTL) or <<t>> (the key expires at time t)
    queue,        \* the list "transcription_queue", head first
    files,        \* audio paths that exist on disk
    now,          \* the clock, in days
    ticks,        \* clock advances so far
    faults,       \* Redis calls that have raised so far
    nextId,       \* ids handed out so far, plus one
    workers,      \* the worker processes that run
    creating,     \* the create_job call under way: its id and the Redis call it is at
    pc,           \* worker -> its place in run / get_next_job / process_job
    cur,          \* worker -> the job it holds: the popped id, then job_id and audio_path of
                  \*           the job dict, the result to store
    exc,          \* worker -> the message of the exception being handled
    raised,       \* worker -> an exception is on its way to the except branch of run
    shutdown_requested,   \* worker process -> its shutdown flag
    signalled,    \* history: worker -> where it was when the flag was set, and the
                  \*          calls of get_next_job it made and jobs it was returned since
    statusHist,   \* history: job id -> the status texts written to its record
    enqLog,       \* history: ids in the order create_job pushed them
    deqLog,       \* history: pops, in order: id, queue length before
    handed,       \* history: job id -> workers get_next_job returned it to
    removed,      \* history: job id -> how its record last disappeared
    infra,        \* history: job id -> the Redis calls that raised while handling it
    inputs,       \* history: job id -> the arguments of its create_job
    excFrom,      \* worker -> the call that raised the exception being handled
    transcribed,  \* history: job id -> what stt_service.transcribe returned or raised for it
    existsLog,    \* history: job id -> what os.path.exists answered in process_job's try
    events,       \* history: job id -> the messages published on its channel, in order
    subs,         \* subscriber -> its PubSub object: channel, buffered and read messages
    sweep,        \* the cleanup_old_jobs call under way: the Redis call it is at, its cutoff,
                  \*   the keys SCAN gave that it has not come to yet, the key at hand, what
                  \*   it met so far
    listing,      \* the list_jobs call under way: its arguments, the keys SCAN gave that
                  \*   it has not read yet, the jobs it has appended so far
    lastCleanup,  \* what cleanup_old_jobs met and returned, when the last step was the return
                  \*   of a sweep that met old records
    lastList      \* what list_jobs was asked and returned, when the last step was its return

vars ==
    <<store, expiry, queue, files, now, ticks, faults, nextId, workers, creating, pc, cur, exc,
      raised, shutdown_requested, signalled, statusHist, enqLog, deqLog, handed, removed, infra,
      inputs, excFrom, transcribed, existsLog, events, subs, sweep, listing, lastCleanup,
      lastList>>

storeVars == <<store, expiry, removed>>
workerVars == <<pc, cur, exc, raised, excFrom>>
histVars == <<statusHist, enqLog, deqLog, handed, infra, inputs, transcribed, existsLog>>
notifyVars == <<events, subs>>

\* stored: the progress text the record held after the last HSET the worker made for
\* the job ("" when it held none), kept as history
NoJob == [job_id |-> 0, audio_path |-> PyNone, result |-> PyNone, stored |-> ""]
NotCreating == [job_id |-> 0, stage |-> ""]
NotRemoved == [by |-> "", status |-> "", at |-> 0]
NoInput == [given |-> FALSE, audio_path |-> PyNone, params |-> PyNone, at |-> 0]
NoCleanup == [cutoff |-> 0, deleted |-> {}, eligible |-> {}, pending |-> {}, ret |-> 0]
NoEvent == [job_id |-> 0, status |-> "", progress |-> PyNone, stored |-> ""]
NoSub == [job_id |-> 0, since |-> 0, inbox |-> <<>>, got |-> <<>>]
NoList == [called |-> FALSE, status |-> PyNone, limit |-> 0, ret |-> <<>>, created |-> <<>>]
NotSweeping ==
    [stage |-> "", cutoff |-> 0, keys |-> {}, key |-> 0, deleted |-> {}, eligible |-> {},
     pending |-> {}, ret |-> 0]
NotListing == [stage |-> "", status |-> PyNone, limit |-> 0, keys |-> {}, jobs |-> <<>>]
\* the calls counted after the flag was set: this many, or more
SignalCap == 2
NoSignal == [at |-> "", job_id |-> 0, polls |-> 0, claims |-> 0]

InitWith(ws) ==
    /\ store = [j \in JobIds |-> EmptyHash]
    /\ expiry = [j \in JobIds |-> <<>>]
    /\ queue = <<>>
    /\ files = {}
    /\ now = 0
    /\ ticks = 0
    /\ faults = 0
    /\ nextId = 1
    /\ workers = ws
    /\ creating = NotCreating
    /\ pc = [w \in WorkerIds |-> "test"]
    /\ cur = [w \in WorkerIds |-> NoJob]
    /\ exc = [w \in WorkerIds |-> ""]
    /\ raised = [w \in WorkerIds |-> FALSE]
    /\ shutdown_requested = [w \in WorkerIds |-> FALSE]
    /\ signalled = [w \in WorkerIds |-> NoSignal]
    /\ statusHist = [j \in JobIds |-> <<>>]
    /\ enqLog = <<>>
    /\ deqLog = <<>>
    /\ handed = [j \in JobIds |-> {}]
    /\ removed = [j \in JobIds |-> NotRemoved]
    /\ infra = [j \in JobIds |-> {}]
    /\ inputs = [j \in JobIds |-> NoInput]
    /\ excFrom = [w \in WorkerIds |-> ""]
    /\ transcribed = [j \in JobIds |-> <<>>]
    /\ existsLog = [j \in JobIds |-> <<>>]
    /\ events = [j \in JobIds |-> <<>>]
    /\ subs = [sb \in SubIds |-> NoSub]
    /\ sweep = NotSweeping
    /\ listing = NotListing
    /\ lastCleanup = NoCleanup
    /\ lastList = NoList

\* one worker process, about to enter run
Init == InitWith({1})

\* ------------------------------------------------------------------ JobQueue

\* mutant: the id is pushed at the tail, the end BRPOP takes from
LPush_Tail(q, x) == Append(q, x)

\* LPUSH: the id goes to the head of the list
LPush(q, x) == <<x>> \o q

\* BRPOP returns the id at the tail of the list
BRPopId(q) == q[Len(q)]

\* BRPOP removes the id it returns
BRPopRest(q) == SubSeq(q, 1, Len(q) - 1)

\* the mapping create_job writes
JobData(job_id, audio_path, params, t) ==
    [fields |-> CreationFields,
     sv |-> [f \in StrFields |->
               CASE f = "status" -> Str(PyStatus(QUEUED))
                 [] f = "audio_path" -> Str(audio_path)
                 [] f = "params" -> JsonDumps(params)
                 [] f = "progress" -> Str(PyInt("0"))
                 [] OTHER -> ""],
     nv |-> [f \in NumFields |->
               CASE f = "job_id" -> job_id
                 [] f = "created_at" -> t
                 [] OTHER -> 0]]

\* a Redis call raises: at most MaxFaults of them do
Raise(fail) ==
    IF fail = "none" THEN UNCHANGED faults
    ELSE faults < MaxFaults /\ faults' = faults + 1

\* the submission path, which is outside the repository, writes the audio content to
\* a place the workers can read; it does so on its own, whatever create_job does
persist_audio(audio_path) ==
    /\ audio_path \notin files
    /\ files' = files \cup {audio_path}
    /\ lastCleanup' = NoCleanup
    /\ lastList' = NoList
    /\ UNCHANGED <<storeVars, queue, now, ticks, faults, nextId, workers, creating, sweep,
                   listing, workerVars, shutdown_requested, signalled, histVars, notifyVars>>

\* create_job(audio_path, params), up to its first Redis call: the id is made and
\* HSET writes the record.  fail = "hset": the call raises, nothing is written,
\* create_job ends.
create_job_hset(audio_path, params, fail) ==
    /\ creating.stage = ""
    /\ nextId <= MaxJobs
    /\ Raise(fail)
    /\ IF fail = "hset"
       THEN UNCHANGED <<store, statusHist, inputs, nextId, creating>>
       ELSE LET job_id == nextId
            IN  /\ store' = [store EXCEPT
                               ![job_id] = HSet(@, JobData(job_id, audio_path, params, now))]
                /\ statusHist' = [statusHist EXCEPT ![job_id] = <<Str(PyStatus(QUEUED))>>]
                /\ inputs' = [inputs EXCEPT
                                ![job_id] = [given |-> TRUE, audio_path |-> audio_path,
                                             params |-> params, at |-> now]]
                /\ nextId' = nextId + 1
                /\ creating' = [job_id |-> job_id, stage |-> "lpush"]
    /\ lastCleanup' = NoCleanup
    /\ lastList' = NoList
    /\ UNCHANGED <<expiry, files, removed, queue, now, ticks, workers, sweep, listing, workerVars,
                   shutdown_requested,
                   signalled, enqLog, deqLog, handed, infra, transcribed, existsLog,
                   notifyVars>>

\* create_job: LPUSH of the id on the queue.  fail = "lpush": the call raises and
\* create_job ends with the record written and the id not queued.
create_job_lpush(fail) ==
    /\ creating.stage = "lpush"
    /\ Raise(fail)
    /\ IF fail = "lpush"
       THEN /\ creating' = NotCreating
            /\ UNCHANGED <<queue, enqLog>>
       ELSE /\ queue' = LPush(queue, creating.job_id)
            /\ enqLog' = Append(enqLog, creating.job_id)
            /\ creating' = [creating EXCEPT !.stage = "expire"]
    /\ lastCleanup' = NoCleanup
    /\ lastList' = NoList
    /\ UNCHANGED <<storeVars, files, now, ticks, nextId, workers, sweep, listing, workerVars,
                   shutdown_requested, signalled, statusHist, deqLog, handed, infra, inputs,
                   transcribed, existsLog, notifyVars>>

\* create_job: EXPIRE of the record's key, JOB_TTL days from now, and the return of
\* the id.  EXPIRE on a key that is gone sets nothing.  fail = "expire": the call
\* raises and create_job ends with no expiry set.
create_job_expire(fail) ==
    /\ creating.stage = "expire"
    /\ Raise(fail)
    /\ expiry' = IF fail = "expire" \/ store[creating.job_id].fields = {} THEN expiry
                 ELSE [expiry EXCEPT ![creating.job_id] = <<now + JOB_TTL>>]
    /\ creating' = NotCreating
    /\ lastCleanup' = NoCleanup
    /\ lastList' = NoList
    /\ UNCHANGED <<store, removed, queue, files, now, ticks, nextId, workers, sweep, listing,
                   workerVars,
                   shutdown_requested, signalled, histVars, notifyVars>>

None == [none |-> TRUE, fields |-> {}, sv |-> [f \in StrFields |-> PyNone],
         nv |-> [f \in NumFields |-> 0]]

\* the dict get_job builds from the hash h
ParseJob(h) ==
    IF h.fields = {} THEN None
    ELSE [none |-> FALSE, fields |-> h.fields,
          sv |-> [f \in StrFields |-> IF f \in h.fields THEN JsonLoadsOrRaw(h.sv[f]) ELSE PyNone],
          nv |-> h.nv]

get_job(job_id) == ParseJob(store[job_id])

\* the dict `updates` of update_status, as the mapping it writes at time t
Updates(status, progress, result, error, t) ==
    [fields |->
        {"status"}
        \cup (IF progress # PyNone THEN {"progress"} ELSE {})
        \cup (IF result # PyNone THEN {"result"} ELSE {})
        \cup (IF error # PyNone THEN {"error"} ELSE {})
        \cup (IF PyEq(status, PyStatus(PROCESSING)) THEN {"started_at"}
              ELSE IF PyEq(status, PyStatus(COMPLETED)) \/ PyEq(status, PyStatus(FAILED))
                   THEN {"completed_at"} ELSE {}),
     sv |-> [f \in StrFields |->
               CASE f = "status" -> Str(status)
                 [] f = "progress" /\ progress # PyNone -> Str(progress)
                 [] f = "result" /\ result # PyNone -> Str(PyStr(JsonDumps(result)))
                 [] f = "error" /\ error # PyNone -> Str(error)
                 [] OTHER -> ""],
     nv |-> [f \in NumFields |->
               CASE f = "started_at" /\ PyEq(status, PyStatus(PROCESSING)) -> t
                 [] f = "completed_at" /\ ~PyEq(status, PyStatus(PROCESSING)) -> t
                 [] OTHER -> 0]]

\* json.dumps of a JobStatus member: the member is a str, its value is written
JsonStatus(status) == status[2]

\* the progress text hash h holds, "" when it has none
StoredProgress(h) == IF "progress" \in h.fields THEN h.sv["progress"] ELSE ""

\* the message update_status publishes; stored: the progress text the hash held
\* after the HSET of the call, kept with the message as history
Event(job_id, status, progress, stored) ==
    [job_id |-> job_id, status |-> JsonStatus(status), progress |-> progress,
     stored |-> stored]

\* mutant: one channel for all jobs
Publish_AllChannels(job_id, e) ==
    [sb \in SubIds |->
        IF subs[sb].job_id # 0
        THEN [subs[sb] EXCEPT !.inbox = Append(@, [type |-> "message",
                                                   seq |-> Len(events[job_id]) + 1, data |-> e])]
        ELSE subs[sb]]

\* PUBLISH on the channel of job_id: Redis appends the message to the connection of
\* every PubSub object subscribed to that channel; seq is its place among the
\* messages published on the channel
Publish(job_id, e) ==
    [sb \in SubIds |->
        IF subs[sb].job_id = job_id
        THEN [subs[sb] EXCEPT !.inbox = Append(@, [type |-> "message",
                                                   seq |-> Len(events[job_id]) + 1, data |-> e])]
        ELSE subs[sb]]

\* the Redis call `call` of update_status(job_id, status, ...), as history names it
RaisedIn(call, status) == call \o " " \o Str(status)

\* update_status(job_id, status, progress, result, error), up to its HSET.
\* fail = "hset": the call raises and nothing is written.
update_status_hset(job_id, status, progress, result, error, fail) ==
    /\ Raise(fail)
    /\ store' = IF fail = "hset" THEN store
                ELSE [store EXCEPT
                        ![job_id] = HSet(@, Updates(status, progress, result, error, now))]
    /\ statusHist' = IF fail = "hset" THEN statusHist
                     ELSE [statusHist EXCEPT ![job_id] = Append(@, Str(status))]
    /\ infra' = IF fail # "none"
                THEN [infra EXCEPT ![job_id] = @ \cup {RaisedIn(fail, status)}]
                ELSE infra

\* update_status: the PUBLISH that follows the HSET, and the return.
\* fail = "publish": the call raises, out of update_status.
update_status_publish(job_id, status, progress, stored, fail) ==
    /\ Raise(fail)
    /\ infra' = IF fail # "none"
                THEN [infra EXCEPT ![job_id] = @ \cup {RaisedIn(fail, status)}]
                ELSE infra
    /\ IF fail = "none"
       THEN \E e \in {Event(job_id, status, progress, stored)} :
                /\ events' = [events EXCEPT ![job_id] = Append(@, e)]
                /\ subs' = Publish(job_id, e)
       ELSE UNCHANGED notifyVars

\* subscribe_to_job_updates(job_id) by caller sb: a new PubSub object, subscribed to
\* the channel of job_id at once; Redis answers with the subscribe confirmation
subscribe_to_job_updates(sb, job_id) ==
    /\ subs[sb].job_id = 0
    /\ subs' = [subs EXCEPT ![sb] =
                   [job_id |-> job_id, since |-> Len(events[job_id]),
                    inbox |-> <<[type |-> "subscribe", seq |-> 0, data |-> NoEvent]>>,
                    got |-> <<>>]]
    /\ lastCleanup' = NoCleanup
    /\ lastList' = NoList
    /\ UNCHANGED <<storeVars, queue, files, now, ticks, faults, nextId, workers, sweep, listing,
                   creating, workerVars,
                   shutdown_requested, signalled, histVars, events>>

\* the caller reads the next message from the PubSub object it was returned
get_message(sb) ==
    /\ subs[sb].inbox # <<>>
    /\ subs' = [subs EXCEPT ![sb].got = Append(@, Head(subs[sb].inbox)),
                            ![sb].inbox = Tail(@)]
    /\ lastCleanup' = NoCleanup
    /\ lastList' = NoList
    /\ UNCHANGED <<storeVars, queue, files, now, ticks, faults, nextId, workers, sweep, listing,
                   creating, workerVars,
                   shutdown_requested, signalled, histVars, events>>

\* ------------------------------------------------------- TranscriptionWorker

\* os.path.exists(audio_path); an int argument names a file descriptor, not open here
Exists(audio_path) == audio_path[1] = "str" /\ audio_path[2] \in files

\* mutant: run does not test the flag
LoopTest_Forever(w) == "poll"

\* run: the test `while not shutdown_requested`
LoopTest(w) == IF shutdown_requested[w] THEN "stopped" ELSE "poll"

\* run: the while test, on entering run and before every iteration
run_test(w) ==
    /\ w \in workers
    /\ pc[w] = "test"
    /\ pc' = [pc EXCEPT ![w] = LoopTest(w)]
    /\ lastCleanup' = NoCleanup
    /\ lastList' = NoList
    /\ UNCHANGED <<storeVars, queue, files, now, ticks, faults, nextId, workers, sweep, listing,
                   creating, cur,
                   exc, raised, excFrom, shutdown_requested, signalled, histVars, notifyVars>>

\* mutant: run has no `except Exception`, an exception that reaches it ends the worker
run_except_NoCatch(w) ==
    /\ w \in workers
    /\ pc[w] = "sleep"
    /\ pc' = [pc EXCEPT ![w] = "stopped"]
    /\ raised' = [raised EXCEPT ![w] = FALSE]
    /\ excFrom' = [excFrom EXCEPT ![w] = ""]
    /\ lastCleanup' = NoCleanup
    /\ lastList' = NoList
    /\ UNCHANGED <<storeVars, queue, files, now, ticks, faults, nextId, workers, sweep, listing,
                   creating, cur,
                   exc, shutdown_requested, signalled, histVars, notifyVars>>

\* run: except Exception: the error is logged, time.sleep(5), then the while test
run_except(w) ==
    /\ w \in workers
    /\ pc[w] = "sleep"
    /\ pc' = [pc EXCEPT ![w] = "test"]
    /\ raised' = [raised EXCEPT ![w] = FALSE]
    /\ excFrom' = [excFrom EXCEPT ![w] = ""]
    /\ lastCleanup' = NoCleanup
    /\ lastList' = NoList
    /\ UNCHANGED <<storeVars, queue, files, now, ticks, faults, nextId, workers, sweep, listing,
                   creating, cur,
                   exc, shutdown_requested, signalled, histVars, notifyVars>>

\* get_next_job(timeout=5), its BRPOP: an id is popped, or the call times out on an
\* empty queue and get_next_job returns None, or (fail = "brpop") it raises
get_next_job_brpop(w, fail) ==
    /\ w \in workers
    /\ pc[w] = "poll"
    /\ Raise(fail)
    /\ IF fail = "brpop"
       THEN /\ pc' = [pc EXCEPT ![w] = "sleep"]
            /\ raised' = [raised EXCEPT ![w] = TRUE]
            /\ excFrom' = [excFrom EXCEPT ![w] = "brpop"]
            /\ UNCHANGED <<queue, deqLog, cur>>
       ELSE IF queue = <<>>
            THEN /\ pc' = [pc EXCEPT ![w] = "test"]
                 /\ UNCHANGED <<queue, deqLog, cur, raised, excFrom>>
            ELSE /\ queue' = BRPopRest(queue)
                 /\ deqLog' = Append(deqLog, [id |-> BRPopId(queue), qlen |-> Len(queue)])
                 /\ cur' = [cur EXCEPT ![w] = [NoJob EXCEPT !.job_id = BRPopId(queue)]]
                 /\ pc' = [pc EXCEPT ![w] = "get_job"]
                 /\ UNCHANGED <<raised, excFrom>>
    /\ signalled' = IF ~shutdown_requested[w] THEN signalled
                    ELSE [signalled EXCEPT ![w].polls = IF @ < SignalCap THEN @ + 1 ELSE @]
    /\ lastCleanup' = NoCleanup
    /\ lastList' = NoList
    /\ UNCHANGED <<storeVars, files, now, ticks, nextId, workers, sweep, listing, creating, exc,
                   shutdown_requested, statusHist, enqLog, handed, infra, inputs, transcribed,
                   existsLog, notifyVars>>

\* get_next_job: get_job of the popped id and the return to run, which calls
\* process_job on a job; process_job reads job_id, audio_path and params from it.
\* fail = "hgetall": the HGETALL of get_job raises.
get_next_job_get_job(w, fail) ==
    /\ w \in workers
    /\ pc[w] = "get_job"
    /\ Raise(fail)
    /\ \E job_id \in {cur[w].job_id} : \E job \in {get_job(job_id)} :
          /\ infra' = IF fail = "hgetall" THEN [infra EXCEPT ![job_id] = @ \cup {"hgetall"}]
                       ELSE infra
          /\ IF fail = "hgetall"
             THEN \* get_job raised
                  /\ pc' = [pc EXCEPT ![w] = "sleep"]
                  /\ raised' = [raised EXCEPT ![w] = TRUE]
                  /\ excFrom' = [excFrom EXCEPT ![w] = "hgetall"]
                  /\ cur' = [cur EXCEPT ![w] = NoJob]
                  /\ UNCHANGED <<handed, signalled>>
             ELSE IF job.none
             THEN \* get_next_job returns None, run continues
                  /\ pc' = [pc EXCEPT ![w] = "test"]
                  /\ cur' = [cur EXCEPT ![w] = NoJob]
                  /\ UNCHANGED <<handed, signalled, raised, excFrom>>
             ELSE IF ~({"job_id", "audio_path", "params"} \subseteq job.fields)
             THEN \* process_job raises KeyError before its try
                  /\ pc' = [pc EXCEPT ![w] = "sleep"]
                  /\ raised' = [raised EXCEPT ![w] = TRUE]
                  /\ excFrom' = [excFrom EXCEPT ![w] = "keys"]
                  /\ cur' = [cur EXCEPT ![w] = NoJob]
                  /\ handed' = [handed EXCEPT ![job_id] = @ \cup {w}]
                  /\ UNCHANGED signalled
             ELSE /\ pc' = [pc EXCEPT ![w] = "claimed"]
                  /\ cur' = [cur EXCEPT ![w] = [job_id |-> job.nv["job_id"],
                                                audio_path |-> job.sv["audio_path"],
                                                result |-> PyNone, stored |-> ""]]
                  /\ handed' = [handed EXCEPT ![job_id] = @ \cup {w}]
                  /\ signalled' =
                        IF ~shutdown_requested[w] THEN signalled
                        ELSE [signalled EXCEPT ![w].claims = IF @ < SignalCap THEN @ + 1 ELSE @]
                  /\ UNCHANGED <<raised, excFrom>>
    /\ lastCleanup' = NoCleanup
    /\ lastList' = NoList
    /\ UNCHANGED <<storeVars, queue, files, now, ticks, nextId, workers, sweep, listing,
                   creating, exc,
                   shutdown_requested, statusHist, enqLog, deqLog, inputs, transcribed,
                   existsLog, notifyVars>>

\* process_job: update_status(PROCESSING, progress=10), its HSET
process_job_begin(w, fail) ==
    /\ w \in workers
    /\ pc[w] = "claimed"
    /\ update_status_hset(cur[w].job_id, PyStatus(PROCESSING), PyInt("10"), PyNone, PyNone, fail)
    /\ IF fail # "none"
       THEN /\ exc' = [exc EXCEPT ![w] = RedisError]
            /\ excFrom' = [excFrom EXCEPT ![w] = fail]
            /\ pc' = [pc EXCEPT ![w] = "except"]
            /\ UNCHANGED cur
       ELSE /\ pc' = [pc EXCEPT ![w] = "pub_processing"]
            /\ cur' = [cur EXCEPT ![w].stored = StoredProgress(store'[cur[w].job_id])]
            /\ UNCHANGED <<exc, excFrom>>
    /\ lastCleanup' = NoCleanup
    /\ lastList' = NoList
    /\ UNCHANGED <<expiry, removed, queue, files, now, ticks, nextId, workers, sweep, listing,
                   creating,
                   raised, shutdown_requested, signalled, enqLog, deqLog, handed, inputs,
                   transcribed, existsLog, notifyVars>>

\* the status and progress of the update_status call whose PUBLISH worker w is at
PubStatus(w) ==
    CASE pc[w] = "pub_processing" -> PyStatus(PROCESSING)
      [] pc[w] = "pub_completed" -> PyStatus(COMPLETED)
      [] OTHER -> PyStatus(FAILED)

PubProgress(w) ==
    CASE pc[w] = "pub_processing" -> PyInt("10")
      [] pc[w] = "pub_completed" -> PyInt("100")
      [] OTHER -> PyNone

\* process_job: the PUBLISH of the update_status call under way and what follows
\* its return or its exception: inside the try the except block, inside the except
\* block the way out of process_job through finally
process_job_publish(w, fail) ==
    /\ w \in workers
    /\ pc[w] \in {"pub_processing", "pub_completed", "pub_failed"}
    /\ update_status_publish(cur[w].job_id, PubStatus(w), PubProgress(w), cur[w].stored, fail)
    /\ IF fail = "none"
       THEN /\ pc' = [pc EXCEPT ![w] = IF pc[w] = "pub_processing" THEN "exists" ELSE "finally"]
            /\ UNCHANGED <<exc, excFrom, raised>>
       ELSE IF pc[w] = "pub_failed"
       THEN /\ raised' = [raised EXCEPT ![w] = TRUE]
            /\ excFrom' = [excFrom EXCEPT ![w] = fail]
            /\ pc' = [pc EXCEPT ![w] = "finally"]
            /\ UNCHANGED exc
       ELSE /\ exc' = [exc EXCEPT ![w] = RedisError]
            /\ excFrom' = [excFrom EXCEPT ![w] = fail]
            /\ pc' = [pc EXCEPT ![w] = "except"]
            /\ UNCHANGED raised
    /\ lastCleanup' = NoCleanup
    /\ lastList' = NoList
    /\ UNCHANGED <<storeVars, queue, files, now, ticks, nextId, workers, sweep, listing,
                   creating, cur,
                   shutdown_requested, signalled, statusHist, enqLog, deqLog, handed, inputs,
                   transcribed, existsLog>>

\* mutant: process_job goes on to transcribe whatever os.path.exists answers
process_job_exists_NoCheck(w) ==
    /\ w \in workers
    /\ pc[w] = "exists"
    /\ existsLog' = [existsLog EXCEPT ![cur[w].job_id] = Append(@, Exists(cur[w].audio_path))]
    /\ pc' = [pc EXCEPT ![w] = "transcribe"]
    /\ lastCleanup' = NoCleanup
    /\ lastList' = NoList
    /\ UNCHANGED <<storeVars, queue, files, now, ticks, faults, nextId, workers, sweep, listing,
                   creating, cur,
                   exc, raised, excFrom, shutdown_requested, signalled, statusHist, enqLog,
                   deqLog, handed, infra, inputs, transcribed, notifyVars>>

\* process_job: the os.path.exists test, which raises FileNotFoundError
process_job_exists(w) ==
    /\ w \in workers
    /\ pc[w] = "exists"
    /\ existsLog' = [existsLog EXCEPT ![cur[w].job_id] = Append(@, Exists(cur[w].audio_path))]
    /\ IF ~Exists(cur[w].audio_path)
       THEN /\ exc' = [exc EXCEPT ![w] = "Audio file not found: " \o Str(cur[w].audio_path)]
            /\ excFrom' = [excFrom EXCEPT ![w] = "exists"]
            /\ pc' = [pc EXCEPT ![w] = "except"]
       ELSE /\ pc' = [pc EXCEPT ![w] = "transcribe"]
            /\ UNCHANGED <<exc, excFrom>>
    /\ lastCleanup' = NoCleanup
    /\ lastList' = NoList
    /\ UNCHANGED <<storeVars, queue, files, now, ticks, faults, nextId, workers, sweep, listing,
                   creating, cur,
                   raised, shutdown_requested, signalled, statusHist, enqLog, deqLog, handed,
                   infra, inputs, transcribed, notifyVars>>

\* process_job: stt_service.transcribe returns a result, to which the worker adds
\* processing_time, or raises
process_job_transcribe(w, outcome) ==
    /\ w \in workers
    /\ pc[w] = "transcribe"
    /\ IF outcome[1] = "str"
       THEN \* transcribe raised: the message is outcome
            /\ exc' = [exc EXCEPT ![w] = Str(outcome)]
            /\ excFrom' = [excFrom EXCEPT ![w] = "transcribe"]
            /\ pc' = [pc EXCEPT ![w] = "except"]
            /\ UNCHANGED cur
       ELSE /\ cur' = [cur EXCEPT ![w].result = WithProcessingTime(outcome)]
            /\ pc' = [pc EXCEPT ![w] = "complete"]
            /\ UNCHANGED <<exc, excFrom>>
    /\ transcribed' = [transcribed EXCEPT ![cur[w].job_id] = Append(@, outcome)]
    /\ lastCleanup' = NoCleanup
    /\ lastList' = NoList
    /\ UNCHANGED <<storeVars, queue, files, now, ticks, faults, nextId, workers, sweep, listing,
                   creating,
                   raised, shutdown_requested, signalled, statusHist, enqLog, deqLog, handed,
                   infra, inputs, existsLog, notifyVars>>

\* process_job: update_status(COMPLETED, progress=100, result=result), its HSET
process_job_complete(w, fail) ==
    /\ w \in workers
    /\ pc[w] = "complete"
    /\ update_status_hset(cur[w].job_id, PyStatus(COMPLETED), PyInt("100"), cur[w].result,
                          PyNone, fail)
    /\ IF fail # "none"
       THEN /\ exc' = [exc EXCEPT ![w] = RedisError]
            /\ excFrom' = [excFrom EXCEPT ![w] = fail]
            /\ pc' = [pc EXCEPT ![w] = "except"]
            /\ UNCHANGED cur
       ELSE /\ pc' = [pc EXCEPT ![w] = "pub_completed"]
            /\ cur' = [cur EXCEPT ![w].stored = StoredProgress(store'[cur[w].job_id])]
            /\ UNCHANGED <<exc, excFrom>>
    /\ lastCleanup' = NoCleanup
    /\ lastList' = NoList
    /\ UNCHANGED <<expiry, removed, queue, files, now, ticks, nextId, workers, sweep, listing,
                   creating,
                   raised, shutdown_requested, signalled, enqLog, deqLog, handed, inputs,
                   transcribed, existsLog, notifyVars>>

\* mutant: the except branch logs the error and records nothing
process_job_except_NoWrite(w, fail) ==
    /\ w \in workers
    /\ pc[w] = "except"
    /\ fail = "none"
    /\ pc' = [pc EXCEPT ![w] = "finally"]
    /\ lastCleanup' = NoCleanup
    /\ lastList' = NoList
    /\ UNCHANGED <<storeVars, queue, files, now, ticks, faults, nextId, workers, sweep, listing,
                   creating, cur,
                   exc, raised, excFrom, shutdown_requested, signalled, histVars, notifyVars>>

\* process_job: except Exception as e: update_status(FAILED, error=str(e)), its HSET;
\* an exception here leaves process_job through finally
process_job_except(w, fail) ==
    /\ w \in workers
    /\ pc[w] = "except"
    /\ update_status_hset(cur[w].job_id, PyStatus(FAILED), PyNone, PyNone, PyStr(exc[w]), fail)
    /\ IF fail # "none"
       THEN /\ raised' = [raised EXCEPT ![w] = TRUE]
            /\ excFrom' = [excFrom EXCEPT ![w] = fail]
            /\ pc' = [pc EXCEPT ![w] = "finally"]
            /\ UNCHANGED cur
       ELSE /\ pc' = [pc EXCEPT ![w] = "pub_failed"]
            /\ cur' = [cur EXCEPT ![w].stored = StoredProgress(store'[cur[w].job_id])]
            /\ UNCHANGED <<raised, excFrom>>
    /\ lastCleanup' = NoCleanup
    /\ lastList' = NoList
    /\ UNCHANGED <<expiry, removed, queue, files, now, ticks, nextId, workers, sweep, listing,
                   creating,
                   exc, shutdown_requested, signalled, enqLog, deqLog, handed, inputs,
                   transcribed, existsLog, notifyVars>>

\* process_job: finally: unlink the audio file if it exists (a failure is logged);
\* process_job then returns to run, or the exception that left the except block
\* goes on to run's except
process_job_finally(w, unlinkFails) ==
    /\ w \in workers
    /\ pc[w] = "finally"
    /\ unlinkFails => Exists(cur[w].audio_path)
    /\ files' = IF Exists(cur[w].audio_path) /\ ~unlinkFails
                THEN files \ {cur[w].audio_path[2]} ELSE files
    /\ pc' = [pc EXCEPT ![w] = IF raised[w] THEN "sleep" ELSE "test"]
    /\ cur' = [cur EXCEPT ![w] = NoJob]
    /\ exc' = [exc EXCEPT ![w] = ""]
    /\ excFrom' = IF raised[w] THEN excFrom ELSE [excFrom EXCEPT ![w] = ""]
    /\ lastCleanup' = NoCleanup
    /\ lastList' = NoList
    /\ UNCHANGED <<storeVars, queue, now, ticks, faults, nextId, workers, sweep, listing,
                   creating, raised,
                   shutdown_requested, signalled, histVars, notifyVars>>

\* mutant: the signal interrupts what the worker is doing and ends run
signal_handler_Interrupt(w) ==
    /\ w \in workers
    /\ ~shutdown_requested[w]
    /\ pc[w] # "stopped"
    /\ shutdown_requested' = [shutdown_requested EXCEPT ![w] = TRUE]
    /\ signalled' = [signalled EXCEPT ![w].at = pc[w], ![w].job_id = cur[w].job_id]
    /\ pc' = [pc EXCEPT ![w] = "stopped"]
    /\ lastCleanup' = NoCleanup
    /\ lastList' = NoList
    /\ UNCHANGED <<storeVars, queue, files, now, ticks, faults, nextId, workers, sweep, listing,
                   creating, cur,
                   exc, raised, excFrom, histVars, notifyVars>>

\* signal_handler: SIGINT or SIGTERM delivered to worker process w once main has
\* registered the handler, which sets the flag and returns to what the worker was doing
signal_handler(w) ==
    /\ w \in workers
    /\ ~shutdown_requested[w]
    /\ pc[w] # "stopped"
    /\ shutdown_requested' = [shutdown_requested EXCEPT ![w] = TRUE]
    /\ signalled' = [signalled EXCEPT ![w].at = pc[w], ![w].job_id = cur[w].job_id]
    /\ lastCleanup' = NoCleanup
    /\ lastList' = NoList
    /\ UNCHANGED <<storeVars, queue, files, now, ticks, faults, nextId, workers, sweep, listing,
                   creating,
                   workerVars, histVars, notifyVars>>

\* --------------------------------------------------------- retention sweep

\* job.get(k)
Get(job, k) == IF k \in job.fields THEN job.sv[k] ELSE PyNone

\* mutant: the sweep goes by the age of the record and skips the status test
ShouldDelete_ByAge(job, cutoff) ==
    /\ ~job.none
    /\ "created_at" \in job.fields
    /\ job.nv["created_at"] < cutoff

\* the three tests of cleanup_old_jobs on the dict `job` of one key
ShouldDelete(job, cutoff) ==
    /\ ~job.none
    /\ \E s \in {COMPLETED, FAILED} : PyEq(Get(job, "status"), PyStatus(s))
    /\ "completed_at" \in job.fields
    /\ job.nv["completed_at"] < cutoff

\* the texts str() gives for the two terminal statuses
TerminalText == {EnumStr(COMPLETED), EnumStr(FAILED)}

\* the record of job j is Completed or Failed and was completed before cutoff
Eligible(j, cutoff) ==
    /\ "status" \in store[j].fields
    /\ store[j].sv["status"] \in TerminalText
    /\ "completed_at" \in store[j].fields
    /\ store[j].nv["completed_at"] < cutoff

\* the record of job j is Queued or Processing and was created before cutoff
Pending(j, cutoff) ==
    /\ "status" \in store[j].fields
    /\ store[j].sv["status"] \in {EnumStr(QUEUED), EnumStr(PROCESSING)}
    /\ "created_at" \in store[j].fields
    /\ store[j].nv["created_at"] < cutoff

\* the keys job:* in the store
Keys == {j \in JobIds : store[j].fields # {}}

\* scan_iter("job:*", count=1000): one SCAN command gives all the keys there are, and
\* the loop comes to them in an order Redis chooses, which shows only as it handles them
ScanKeys == Keys

SweepFail == {"none", "hgetall", "delete"}

\* what a sweep hands out when it returns: the records it deleted, the ids of the old
\* terminal records and of the old pending records it read, the count it returns
Found(s) ==
    IF s.deleted = {} /\ s.eligible = {} /\ s.pending = {} /\ s.ret = 0 THEN NoCleanup
    ELSE [cutoff |-> s.cutoff, deleted |-> s.deleted, eligible |-> s.eligible,
          pending |-> s.pending, ret |-> s.ret]

\* the for loop of cleanup_old_jobs with the keys s.keys left: on to the get_job of the
\* next key, or past the last key to `return deleted`
SweepOn(s) ==
    IF s.keys = {}
    THEN sweep' = NotSweeping /\ lastCleanup' = Found(s)
    ELSE sweep' = [s EXCEPT !.stage = "get_job"] /\ lastCleanup' = NoCleanup

\* cleanup_old_jobs(days), up to its first Redis call: the cutoff is taken and SCAN
\* gives the keys.  fail = "scan": the call raises and cleanup_old_jobs ends.
cleanup_old_jobs_scan(days, fail) ==
    /\ sweep.stage = ""
    /\ Raise(fail)
    /\ IF fail # "none"
       THEN sweep' = NotSweeping /\ lastCleanup' = NoCleanup
       ELSE SweepOn([NotSweeping EXCEPT !.cutoff = now - days, !.keys = ScanKeys])
    /\ lastList' = NoList
    /\ UNCHANGED <<storeVars, queue, files, now, ticks, nextId, workers, listing, creating,
                   workerVars, shutdown_requested, signalled, histVars, notifyVars>>

\* the body of the loop for the next key, up to DEL: get_job reads the record as it
\* is now (HGETALL) and the three tests are made on it
cleanup_old_jobs_get_job(fail) ==
    /\ sweep.stage = "get_job"
    /\ fail \in {"none", "hgetall"}
    /\ Raise(fail)
    /\ IF fail # "none"
       THEN sweep' = NotSweeping /\ lastCleanup' = NoCleanup
       ELSE \E j \in sweep.keys :
               LET met == [sweep EXCEPT
                             !.keys = @ \ {j},
                             !.eligible = IF Eligible(j, sweep.cutoff) THEN @ \cup {j} ELSE @,
                             !.pending = IF Pending(j, sweep.cutoff) THEN @ \cup {j} ELSE @]
               IN  IF ShouldDelete(get_job(j), sweep.cutoff)
                   THEN /\ sweep' = [met EXCEPT !.stage = "delete", !.key = j]
                        /\ lastCleanup' = NoCleanup
                   ELSE SweepOn(met)
    /\ lastList' = NoList
    /\ UNCHANGED <<storeVars, queue, files, now, ticks, nextId, workers, listing, creating,
                   workerVars, shutdown_requested, signalled, histVars, notifyVars>>

\* redis_client.delete(key); deleted += 1: the key goes with whatever it holds now,
\* and it is counted also when it is no longer there
cleanup_old_jobs_delete(fail) ==
    /\ sweep.stage = "delete"
    /\ fail \in {"none", "delete"}
    /\ Raise(fail)
    /\ LET j == sweep.key
           there == store[j].fields # {}
       IN  IF fail # "none"
           THEN /\ sweep' = NotSweeping
                /\ lastCleanup' = NoCleanup
                /\ UNCHANGED storeVars
           ELSE /\ store' = [store EXCEPT ![j] = EmptyHash]
                /\ expiry' = [expiry EXCEPT ![j] = <<>>]
                /\ removed' = IF there
                              THEN [removed EXCEPT ![j] =
                                      [by |-> "sweep", status |-> store[j].sv["status"],
                                       at |-> now]]
                              ELSE removed
                /\ SweepOn([sweep EXCEPT
                              !.key = 0,
                              !.ret = @ + 1,
                              !.deleted =
                                 IF there
                                 THEN @ \cup {[id |-> j, status |-> store[j].sv["status"],
                                               dated |-> "completed_at" \in store[j].fields,
                                               completed_at |-> store[j].nv["completed_at"]]}
                                 ELSE @])
    /\ lastList' = NoList
    /\ UNCHANGED <<queue, files, now, ticks, nextId, workers, listing, creating, workerVars,
                   shutdown_requested, signalled, histVars, notifyVars>>

\* the next Redis call of the sweep under way, for the key at hand
cleanup_old_jobs_key(fail) ==
    IF sweep.stage = "delete" THEN cleanup_old_jobs_delete(fail)
    ELSE cleanup_old_jobs_get_job(fail)

\* ---------------------------------------------------------------- list_jobs

ListLimits == {1, 2}
StatusFilters == {PyNone, PyStatus(QUEUED), PyStatus(COMPLETED), PyStatus(FAILED)}

\* x.get("created_at", ""): the time of creation, and less than any for a job without
CreatedAt(job) == IF "created_at" \in job.fields THEN job.nv["created_at"] ELSE -1

\* jobs.sort(key=..., reverse=True): descending, jobs with equal keys keep their order
RECURSIVE SortDesc(_)
SortDesc(jobs) ==
    IF jobs = <<>> THEN <<>>
    ELSE LET sorted == SortDesc(SubSeq(jobs, 1, Len(jobs) - 1))
             x == jobs[Len(jobs)]
             c == Cardinality({i \in 1..Len(sorted) : sorted[i].created_at >= x.created_at})
         IN  SubSeq(sorted, 1, c) \o <<x>> \o SubSeq(sorted, c + 1, Len(sorted))

\* jobs[:limit]
Take(jobs, limit) == SubSeq(jobs, 1, IF Len(jobs) < limit THEN Len(jobs) ELSE limit)

\* what list_jobs returns from the jobs it appended: ret holds their ids in the order
\* returned, created the created_at each was read with
Listed(l) ==
    LET out == Take(SortDesc(l.jobs), l.limit)
    IN  [called |-> TRUE, status |-> l.status, limit |-> l.limit,
         ret |-> [i \in 1..Len(out) |-> out[i].id],
         created |-> [i \in 1..Len(out) |-> out[i].created_at]]

\* the for loop of list_jobs with the keys l.keys left: it ends when the keys run out
\* or `limit` jobs are appended, and goes on to the get_job of the next key otherwise
ListOn(l) ==
    IF l.keys = {} \/ Len(l.jobs) >= l.limit
    THEN listing' = NotListing /\ lastList' = Listed(l)
    ELSE listing' = [l EXCEPT !.stage = "get_job"] /\ lastList' = NoList

\* list_jobs(status, limit), up to its first Redis call: SCAN gives the keys.
\* fail = "scan": the call raises and list_jobs ends.
list_jobs_scan(status, limit, fail) ==
    /\ listing.stage = ""
    /\ Raise(fail)
    /\ IF fail # "none"
       THEN listing' = NotListing /\ lastList' = NoList
       ELSE ListOn([NotListing EXCEPT !.status = status, !.limit = limit, !.keys = ScanKeys])
    /\ lastCleanup' = NoCleanup
    /\ UNCHANGED <<storeVars, queue, files, now, ticks, nextId, workers, sweep, creating,
                   workerVars, shutdown_requested, signalled, histVars, notifyVars>>

\* the body of the loop for the next key: get_job reads the record as it is now
\* (HGETALL) and the job is appended when there is one and there is no filter or its
\* status equals the filter; after the last key, or with `limit` jobs, the sort and
\* the return
list_jobs_get_job(fail) ==
    /\ listing.stage = "get_job"
    /\ Raise(fail)
    /\ IF fail # "none"
       THEN listing' = NotListing /\ lastList' = NoList
       ELSE \E j \in listing.keys :
               LET job == get_job(j)
                   keep == ~job.none /\ (listing.status = PyNone
                                         \/ PyEq(Get(job, "status"), listing.status))
               IN  ListOn([listing EXCEPT
                             !.keys = @ \ {j},
                             !.jobs = IF keep
                                      THEN Append(@, [id |-> j, created_at |-> CreatedAt(job)])
                                      ELSE @])
    /\ lastCleanup' = NoCleanup
    /\ UNCHANGED <<storeVars, queue, files, now, ticks, nextId, workers, sweep, creating,
                   workerVars, shutdown_requested, signalled, histVars, notifyVars>>

\* ----------------------------------------------------------------- the clock

\* d days pass; Redis drops every key whose TTL has run out
Tick(d) ==
    /\ ticks < MaxTicks
    /\ ticks' = ticks + 1
    /\ now' = now + d
    /\ LET gone == {j \in JobIds : expiry[j] # <<>> /\ expiry[j][1] <= now + d}
       IN  /\ store' = [j \in JobIds |-> IF j \in gone THEN EmptyHash ELSE store[j]]
           /\ expiry' = [j \in JobIds |-> IF j \in gone THEN <<>> ELSE expiry[j]]
           /\ removed' = [j \in JobIds |->
                            IF j \in gone
                            THEN [by |-> "expire", status |-> store[j].sv["status"], at |-> now + d]
                            ELSE removed[j]]
    /\ lastCleanup' = NoCleanup
    /\ lastList' = NoList
    /\ UNCHANGED <<queue, files, faults, nextId, workers, sweep, listing, creating, workerVars,
                   shutdown_requested, signalled,
                   histVars, notifyVars>>

Outcomes == TranscribeResults \cup {PyStr(m) : m \in TranscribeErrors}

\* everything: one worker, Redis faults, the clock and the retention sweep
Next ==
    \/ persist_audio("a.wav")
    \/ \E a \in AudioPaths, p \in ParamDicts, fail \in {"none", "hset"} :
          create_job_hset(PyStr(a), p, fail)
    \/ \E fail \in {"none", "lpush"} : create_job_lpush(fail)
    \/ \E fail \in {"none", "expire"} : create_job_expire(fail)
    \/ \E w \in WorkerIds : run_test(w)
    \/ \E w \in WorkerIds, fail \in {"none", "brpop"} : get_next_job_brpop(w, fail)
    \/ \E w \in WorkerIds, fail \in {"none", "hgetall"} : get_next_job_get_job(w, fail)
    \/ \E w \in WorkerIds, fail \in HSetFail : process_job_begin(w, fail)
    \/ \E w \in WorkerIds, fail \in PublishFail : process_job_publish(w, fail)
    \/ \E w \in WorkerIds : process_job_exists(w)
    \/ \E w \in WorkerIds, o \in Outcomes : process_job_transcribe(w, o)
    \/ \E w \in WorkerIds, fail \in HSetFail : process_job_complete(w, fail)
    \/ \E w \in WorkerIds, fail \in HSetFail : process_job_except(w, fail)
    \/ \E w \in WorkerIds, unlinkFails \in BOOLEAN : process_job_finally(w, unlinkFails)
    \/ \E w \in WorkerIds : run_except(w)
    \/ \E days \in CleanupDays, fail \in {"none", "scan"} : cleanup_old_jobs_scan(days, fail)
    \/ \E fail \in SweepFail : cleanup_old_jobs_key(fail)
    \/ \E d \in TickDays : Tick(d)

Spec == Init /\ [][Next]_vars

\* the job store over time: one worker, the clock and the sweep; no Redis fault,
\* transcriptions that return, unlink that succeeds
NextStore ==
    \/ persist_audio("a.wav")
    \/ \E p \in ParamDicts : create_job_hset(PyStr("a.wav"), p, "none")
    \/ create_job_lpush("none")
    \/ create_job_expire("none")
    \/ \E w \in WorkerIds : run_test(w)
    \/ \E w \in WorkerIds : get_next_job_brpop(w, "none")
    \/ \E w \in WorkerIds : get_next_job_get_job(w, "none")
    \/ \E w \in WorkerIds : process_job_begin(w, "none")
    \/ \E w \in WorkerIds : process_job_publish(w, "none")
    \/ \E w \in WorkerIds : process_job_exists(w)
    \/ \E w \in WorkerIds, o \in TranscribeResults : process_job_transcribe(w, o)
    \/ \E w \in WorkerIds : process_job_complete(w, "none")
    \/ \E w \in WorkerIds : process_job_except(w, "none")
    \/ \E w \in WorkerIds, unlinkFails \in {FALSE} : process_job_finally(w, unlinkFails)
    \/ \E days \in CleanupDays : cleanup_old_jobs_scan(days, "none")
    \/ cleanup_old_jobs_key("none")
    \/ \E d \in TickDays : Tick(d)

SpecStore == Init /\ [][NextStore]_vars

\* the sweep beside the worker: submissions whose audio was not saved, so that every
\* job ends Failed, no Redis fault, and a sweep that runs while jobs are created and
\* processed
SweepStep ==
    \/ \E p \in ParamDicts : create_job_hset(PyStr("a.wav"), p, "none")
    \/ create_job_lpush("none")
    \/ create_job_expire("none")
    \/ \E w \in WorkerIds : run_test(w)
    \/ \E w \in WorkerIds : get_next_job_brpop(w, "none")
    \/ \E w \in WorkerIds : get_next_job_get_job(w, "none")
    \/ \E w \in WorkerIds : process_job_begin(w, "none")
    \/ \E w \in WorkerIds : process_job_publish(w, "none")
    \/ \E w \in WorkerIds : process_job_exists(w)
    \/ \E w \in WorkerIds : process_job_except(w, "none")
    \/ \E w \in WorkerIds, unlinkFails \in {FALSE} : process_job_finally(w, unlinkFails)
    \/ \E days \in CleanupDays : cleanup_old_jobs_scan(days, "none")
    \/ cleanup_old_jobs_key("none")

\* records grow older than the sweep's cutoff and none expires
NextSweep == SweepStep \/ \E d \in TickDays \ {JOB_TTL} : Tick(d)

SpecSweep == Init /\ [][NextSweep]_vars

\* records run out of their time to live
NextRetention == SweepStep \/ Tick(JOB_TTL)

SpecRetention == Init /\ [][NextRetention]_vars

\* the worker pool: two worker processes, each about to enter run, on one queue;
\* the calls on the queue and get_job may raise; no clock
InitWorkers ==
    /\ InitWith({1, 2})

NextWorkers ==
    \/ persist_audio("a.wav")
    \/ \E p \in ParamDicts : create_job_hset(PyStr("a.wav"), p, "none")
    \/ \E fail \in {"none", "lpush"} : create_job_lpush(fail)
    \/ create_job_expire("none")
    \/ \E w \in WorkerIds : run_test(w)
    \/ \E w \in WorkerIds, fail \in {"none", "brpop"} : get_next_job_brpop(w, fail)
    \/ \E w \in WorkerIds, fail \in {"none", "hgetall"} : get_next_job_get_job(w, fail)
    \/ \E w \in WorkerIds : process_job_begin(w, "none")
    \/ \E w \in WorkerIds : process_job_publish(w, "none")
    \/ \E w \in WorkerIds : process_job_exists(w)
    \/ \E w \in WorkerIds, o \in Outcomes : process_job_transcribe(w, o)
    \/ \E w \in WorkerIds : process_job_complete(w, "none")
    \/ \E w \in WorkerIds : process_job_except(w, "none")
    \/ \E w \in WorkerIds, unlinkFails \in BOOLEAN : process_job_finally(w, unlinkFails)
    \/ \E w \in WorkerIds : run_except(w)

SpecWorkers == InitWorkers /\ [][NextWorkers]_vars

\* the worker pool over time: two workers on one queue and records that run out of
\* their time to live; no Redis fault
NextPool ==
    \/ persist_audio("a.wav")
    \/ \E p \in ParamDicts : create_job_hset(PyStr("a.wav"), p, "none")
    \/ create_job_lpush("none")
    \/ create_job_expire("none")
    \/ \E w \in WorkerIds : run_test(w)
    \/ \E w \in WorkerIds : get_next_job_brpop(w, "none")
    \/ \E w \in WorkerIds : get_next_job_get_job(w, "none")
    \/ \E w \in WorkerIds : process_job_begin(w, "none")
    \/ \E w \in WorkerIds : process_job_publish(w, "none")
    \/ \E w \in WorkerIds : process_job_exists(w)
    \/ \E w \in WorkerIds, o \in Outcomes : process_job_transcribe(w, o)
    \/ \E w \in WorkerIds : process_job_complete(w, "none")
    \/ \E w \in WorkerIds : process_job_except(w, "none")
    \/ \E w \in WorkerIds, unlinkFails \in BOOLEAN : process_job_finally(w, unlinkFails)
    \/ Tick(JOB_TTL)

SpecPool == InitWorkers /\ [][NextPool]_vars

\* the worker loop: one worker, Redis faults in every call; no clock
NextLoop ==
    \/ persist_audio("a.wav")
    \/ \E p \in ParamDicts, fail \in {"none", "hset"} : create_job_hset(PyStr("a.wav"), p, fail)
    \/ \E fail \in {"none", "lpush"} : create_job_lpush(fail)
    \/ \E fail \in {"none", "expire"} : create_job_expire(fail)
    \/ \E w \in WorkerIds : run_test(w)
    \/ \E w \in WorkerIds, fail \in {"none", "brpop"} : get_next_job_brpop(w, fail)
    \/ \E w \in WorkerIds, fail \in {"none", "hgetall"} : get_next_job_get_job(w, fail)
    \/ \E w \in WorkerIds, fail \in HSetFail : process_job_begin(w, fail)
    \/ \E w \in WorkerIds, fail \in PublishFail : process_job_publish(w, fail)
    \/ \E w \in WorkerIds : process_job_exists(w)
    \/ \E w \in WorkerIds, o \in Outcomes : process_job_transcribe(w, o)
    \/ \E w \in WorkerIds, fail \in HSetFail : process_job_complete(w, fail)
    \/ \E w \in WorkerIds, fail \in HSetFail : process_job_except(w, fail)
    \/ \E w \in WorkerIds, unlinkFails \in BOOLEAN : process_job_finally(w, unlinkFails)
    \/ \E w \in WorkerIds : run_except(w)

SpecLoop == Init /\ [][NextLoop]_vars

\* notifications: one worker and a subscriber, no Redis fault, no clock
NextNotify ==
    \/ persist_audio("a.wav")
    \/ \E p \in ParamDicts : create_job_hset(PyStr("a.wav"), p, "none")
    \/ create_job_lpush("none")
    \/ create_job_expire("none")
    \/ \E w \in WorkerIds : run_test(w)
    \/ \E w \in WorkerIds : get_next_job_brpop(w, "none")
    \/ \E w \in WorkerIds : get_next_job_get_job(w, "none")
    \/ \E w \in WorkerIds : process_job_begin(w, "none")
    \/ \E w \in WorkerIds : process_job_publish(w, "none")
    \/ \E w \in WorkerIds : process_job_exists(w)
    \/ \E w \in WorkerIds, o \in Outcomes : process_job_transcribe(w, o)
    \/ \E w \in WorkerIds : process_job_complete(w, "none")
    \/ \E w \in WorkerIds : process_job_except(w, "none")
    \/ \E w \in WorkerIds, unlinkFails \in BOOLEAN : process_job_finally(w, unlinkFails)
    \/ \E sb \in SubIds, job_id \in JobIds : subscribe_to_job_updates(sb, job_id)
    \/ \E sb \in SubIds : get_message(sb)

SpecNotify == Init /\ [][NextNotify]_vars

\* the audio files: one worker, every submission with its file saved or not, no
\* Redis fault, no clock
NextFiles ==
    \/ \E a \in AudioPaths : persist_audio(a)
    \/ \E a \in AudioPaths, p \in ParamDicts : create_job_hset(PyStr(a), p, "none")
    \/ create_job_lpush("none")
    \/ create_job_expire("none")
    \/ \E w \in WorkerIds : run_test(w)
    \/ \E w \in WorkerIds : get_next_job_brpop(w, "none")
    \/ \E w \in WorkerIds : get_next_job_get_job(w, "none")
    \/ \E w \in WorkerIds : process_job_begin(w, "none")
    \/ \E w \in WorkerIds : process_job_publish(w, "none")
    \/ \E w \in WorkerIds : process_job_exists(w)
    \/ \E w \in WorkerIds, o \in Outcomes : process_job_transcribe(w, o)
    \/ \E w \in WorkerIds : process_job_complete(w, "none")
    \/ \E w \in WorkerIds : process_job_except(w, "none")
    \/ \E w \in WorkerIds, unlinkFails \in BOOLEAN : process_job_finally(w, unlinkFails)

SpecFiles == Init /\ [][NextFiles]_vars

\* shutdown: one worker and the signal; get_next_job may raise, no other Redis
\* fault, no clock
NextShutdown ==
    \/ persist_audio("a.wav")
    \/ \E p \in ParamDicts : create_job_hset(PyStr("a.wav"), p, "none")
    \/ create_job_lpush("none")
    \/ create_job_expire("none")
    \/ \E w \in WorkerIds : run_test(w)
    \/ \E w \in WorkerIds, fail \in {"none", "brpop"} : get_next_job_brpop(w, fail)
    \/ \E w \in WorkerIds, fail \in {"none", "hgetall"} : get_next_job_get_job(w, fail)
    \/ \E w \in WorkerIds : process_job_begin(w, "none")
    \/ \E w \in WorkerIds : process_job_publish(w, "none")
    \/ \E w \in WorkerIds : process_job_exists(w)
    \/ \E w \in WorkerIds, o \in Outcomes : process_job_transcribe(w, o)
    \/ \E w \in WorkerIds : process_job_complete(w, "none")
    \/ \E w \in WorkerIds : process_job_except(w, "none")
    \/ \E w \in WorkerIds, unlinkFails \in BOOLEAN : process_job_finally(w, unlinkFails)
    \/ \E w \in WorkerIds : run_except(w)
    \/ \E w \in WorkerIds : signal_handler(w)

SpecShutdown == Init /\ [][NextShutdown]_vars

\* a signal while jobs are processed: one worker and the signal; Redis faults in
\* every call of the worker; no clock
NextCancel ==
    \/ persist_audio("a.wav")
    \/ \E p \in ParamDicts : create_job_hset(PyStr("a.wav"), p, "none")
    \/ create_job_lpush("none")
    \/ create_job_expire("none")
    \/ \E w \in WorkerIds : run_test(w)
    \/ \E w \in WorkerIds, fail \in {"none", "brpop"} : get_next_job_brpop(w, fail)
    \/ \E w \in WorkerIds, fail \in {"none", "hgetall"} : get_next_job_get_job(w, fail)
    \/ \E w \in WorkerIds, fail \in HSetFail : process_job_begin(w, fail)
    \/ \E w \in WorkerIds, fail \in PublishFail : process_job_publish(w, fail)
    \/ \E w \in WorkerIds : process_job_exists(w)
    \/ \E w \in WorkerIds, o \in Outcomes : process_job_transcribe(w, o)
    \/ \E w \in WorkerIds, fail \in HSetFail : process_job_complete(w, fail)
    \/ \E w \in WorkerIds, fail \in HSetFail : process_job_except(w, fail)
    \/ \E w \in WorkerIds, unlinkFails \in BOOLEAN : process_job_finally(w, unlinkFails)
    \/ \E w \in WorkerIds : run_except(w)
    \/ \E w \in WorkerIds : signal_handler(w)

SpecCancel == Init /\ [][NextCancel]_vars

\* listing: one worker, the clock and list_jobs, no Redis fault
NextList ==
    \/ persist_audio("a.wav")
    \/ \E p \in ParamDicts : create_job_hset(PyStr("a.wav"), p, "none")
    \/ create_job_lpush("none")
    \/ create_job_expire("none")
    \/ \E w \in WorkerIds : run_test(w)
    \/ \E w \in WorkerIds : get_next_job_brpop(w, "none")
    \/ \E w \in WorkerIds : get_next_job_get_job(w, "none")
    \/ \E w \in WorkerIds : process_job_begin(w, "none")
    \/ \E w \in WorkerIds : process_job_publish(w, "none")
    \/ \E w \in WorkerIds : process_job_exists(w)
    \/ \E w \in WorkerIds, o \in Outcomes : process_job_transcribe(w, o)
    \/ \E w \in WorkerIds : process_job_complete(w, "none")
    \/ \E w \in WorkerIds : process_job_except(w, "none")
    \/ \E w \in WorkerIds, unlinkFails \in BOOLEAN : process_job_finally(w, unlinkFails)
    \/ \E d \in TickDays : Tick(d)
    \/ \E status \in StatusFilters, limit \in ListLimits : list_jobs_scan(status, limit, "none")
    \/ list_jobs_get_job("none")

SpecList == Init /\ [][NextList]_vars

\* the step worker w takes next in run when the call it is in returns
RunStep(w) ==
    \/ run_test(w)
    \/ get_next_job_brpop(w, "none")
    \/ get_next_job_get_job(w, "none")
    \/ process_job_begin(w, "none")
    \/ process_job_publish(w, "none")
    \/ process_job_exists(w)
    \/ \E o \in Outcomes : process_job_transcribe(w, o)
    \/ process_job_complete(w, "none")
    \/ process_job_except(w, "none")
    \/ \E unlinkFails \in BOOLEAN : process_job_finally(w, unlinkFails)

\* the same, with the way back to the loop test after a call that raised
RunOn(w) == RunStep(w) \/ run_except(w)

\* the step a create_job call under way takes next when its Redis call returns
CreateStep ==
    \/ create_job_lpush("none")
    \/ create_job_expire("none")

\* the expiry of records: submissions, one worker, days that pass; no Redis fault,
\* no sweep, no signal
NextExpiry ==
    \/ persist_audio("a.wav")
    \/ \E p \in ParamDicts : create_job_hset(PyStr("a.wav"), p, "none")
    \/ CreateStep
    \/ \E w \in WorkerIds : RunStep(w)
    \/ Tick(JOB_TTL)

SpecExpiry == Init /\ [][NextExpiry]_vars

\* a worker that keeps running: SpecExpiry, and every call returns
SpecLive == SpecExpiry /\ WF_vars(CreateStep) /\ \A w \in {1} : WF_vars(RunStep(w))

\* a worker that keeps running while its Redis calls raise: submissions, one worker,
\* Redis faults in every call of the worker; every call of the worker returns or
\* raises; no clock
NextSurvive ==
    \/ persist_audio("a.wav")
    \/ \E p \in ParamDicts : create_job_hset(PyStr("a.wav"), p, "none")
    \/ CreateStep
    \/ \E w \in WorkerIds : run_test(w)
    \/ \E w \in WorkerIds, fail \in {"none", "brpop"} : get_next_job_brpop(w, fail)
    \/ \E w \in WorkerIds, fail \in {"none", "hgetall"} : get_next_job_get_job(w, fail)
    \/ \E w \in WorkerIds, fail \in HSetFail : process_job_begin(w, fail)
    \/ \E w \in WorkerIds, fail \in PublishFail : process_job_publish(w, fail)
    \/ \E w \in WorkerIds : process_job_exists(w)
    \/ \E w \in WorkerIds, o \in Outcomes : process_job_transcribe(w, o)
    \/ \E w \in WorkerIds, fail \in HSetFail : process_job_complete(w, fail)
    \/ \E w \in WorkerIds, fail \in HSetFail : process_job_except(w, fail)
    \/ \E w \in WorkerIds, unlinkFails \in BOOLEAN : process_job_finally(w, unlinkFails)
    \/ \E w \in WorkerIds : run_except(w)

SpecSurvive == Init /\ [][NextSurvive]_vars /\ \A w \in {1} : WF_vars(RunOn(w))

\* shutdown of a worker whose calls return or raise: SpecShutdown, and the worker
\* goes on
SpecStop == SpecShutdown /\ \A w \in {1} : WF_vars(RunOn(w))

\* ===================================================================== claims

QueuedText == EnumStr(QUEUED)
ProcessingText == EnumStr(PROCESSING)
CompletedText == EnumStr(COMPLETED)
FailedText == EnumStr(FAILED)

\* the last status written for job j is Completed or Failed
Terminal(j) == statusHist[j] # <<>> /\ statusHist[j][Len(statusHist[j])] \in TerminalText

\* the HSET of update_status(FAILED) raised for job j: the outcome was not written
FailedWriteRaised(j) == RaisedIn("hset", PyStatus(FAILED)) \in infra[j]

\* process_job has been called for job j and is over
Done(j) == handed[j] # {} /\ \A w \in workers : cur[w].job_id # j

PoppedIds == {deqLog[i].id : i \in 1..Len(deqLog)}

\* a worker is inside get_next_job with id j popped and its record not yet read
Fetching(j) == \E w \in workers : pc[w] = "get_job" /\ cur[w].job_id = j

\* a worker is inside an update_status for job j that has written and not yet published
Publishing(j) ==
    \E w \in workers :
        pc[w] \in {"pub_processing", "pub_completed", "pub_failed"} /\ cur[w].job_id = j

\* C1: the statuses written to a job's record are a prefix of Queued, Processing,
\* then one of Completed or Failed, whatever Redis calls raise.
C1_StatusLifecycle ==
    \A j \in JobIds :
        statusHist[j] \in {<<>>, <<QueuedText>>, <<QueuedText, ProcessingText>>,
                           <<QueuedText, ProcessingText, CompletedText>>,
                           <<QueuedText, ProcessingText, FailedText>>}

\* C2: a record has result exactly when its status is Completed and error exactly
\* when its status is Failed.
C2_ResultErrorIff ==
    \A j \in JobIds :
        store[j].fields # {} =>
            /\ ("result" \in store[j].fields) <=> (store[j].sv["status"] = CompletedText)
            /\ ("error" \in store[j].fields) <=> (store[j].sv["status"] = FailedText)

\* C3: with two workers on one queue each id is popped at most once and returned
\* to exactly one worker once the get_next_job call that popped it is over, and no
\* two workers hold the same job.
C3_SingleDelivery ==
    /\ \A i, k \in 1..Len(deqLog) : i # k => deqLog[i].id # deqLog[k].id
    /\ \A j \in JobIds : Cardinality(handed[j]) <= 1
    /\ \A j \in PoppedIds : ~Fetching(j) => Cardinality(handed[j]) = 1
    /\ \A w1, w2 \in workers :
          (w1 # w2 /\ cur[w1].job_id # 0) => cur[w1].job_id # cur[w2].job_id

\* C4: ids leave the queue in the order create_job pushed them.
C4_Fifo == \A i \in 1..Len(deqLog) : deqLog[i].id = enqLog[i]

\* C4 witness: an id was popped while another waited behind it, and that one was
\* popped next
C4_Witness == Len(deqLog) >= 2 /\ deqLog[1].qlen >= 2

\* C5: with one worker, once a job is dequeued the job dequeued before it has a
\* terminal status, and the worker is in process_job for at most the job dequeued last.
C5_OneAtATime ==
    /\ \A i \in 2..Len(deqLog) : Terminal(deqLog[i - 1].id)
    /\ \A w \in workers :
          cur[w].job_id # 0 => cur[w].job_id = deqLog[Len(deqLog)].id

\* C6: get_job returns None or a record with all the fields written at creation.
C6_GetJobComplete ==
    \A j \in JobIds : get_job(j).none \/ CreationFields \subseteq get_job(j).fields

\* C7: every record a sweep deletes is Completed or Failed with completed_at before
\* the cutoff when DEL removes it; no record the sweep read as Queued or Processing
\* is among those it deletes, and no record is removed by a sweep while it is Queued
\* or Processing.
C7_SweepSparesPending ==
    /\ \A s \in {sweep, lastCleanup} :
          /\ \A d \in s.deleted :
                d.status \in TerminalText /\ d.dated /\ d.completed_at < s.cutoff
          /\ \A j \in s.pending : j \notin {d.id : d \in s.deleted}
    /\ \A j \in JobIds : removed[j].by = "sweep" => removed[j].status \in TerminalText

\* C7 witness: a sweep met a Queued and a Processing record older than its cutoff
C7_Witness ==
    /\ \E j \in lastCleanup.pending : store[j].sv["status"] = QueuedText
    /\ \E j \in lastCleanup.pending : store[j].sv["status"] = ProcessingText

\* C8: a sweep deletes every Completed or Failed record completed before the cutoff
\* and returns the number of records it deleted.
C8_SweepDeletesOldTerminal ==
    /\ lastCleanup.eligible \subseteq {d.id : d \in lastCleanup.deleted}
    /\ \A j \in lastCleanup.eligible : store[j].fields = {}
    /\ lastCleanup.ret = Cardinality(lastCleanup.deleted)

\* C9 as stated: a record disappears only once its status is terminal.
C9_Original ==
    \A j \in JobIds : removed[j].by # "" => removed[j].status \in TerminalText

\* C9 amended: the sweep never removes a Queued or Processing record; such a record
\* disappears only by the expiry set at creation, JOB_TTL days after it was created.
C9_PendingGoesOnlyByExpiry ==
    \A j \in JobIds :
        (removed[j].by # "" /\ removed[j].status \notin TerminalText) =>
            /\ removed[j].by = "expire"
            /\ removed[j].at >= inputs[j].at + JOB_TTL

\* C9 witness: a record expired while Queued, and one while Processing
C9_Witness ==
    /\ \E j \in JobIds : removed[j].by = "expire" /\ removed[j].status = QueuedText
    /\ \E j \in JobIds : removed[j].by = "expire" /\ removed[j].status = ProcessingText

\* C10: create_job returns a fresh id, and until a worker claims the job get_job shows
\* a status equal to JobStatus.QUEUED, progress 0, the audio_path and params given, created_at, and none
\* of started_at, completed_at, result, error.
C10_CreateThenGet ==
    /\ \A i, k \in 1..Len(enqLog) : i # k => enqLog[i] # enqLog[k]
    /\ \A j \in JobIds :
          (inputs[j].given /\ j \notin PoppedIds /\ ~get_job(j).none) =>
              /\ get_job(j).fields = CreationFields
              /\ get_job(j).nv["job_id"] = j
              /\ PyEq(get_job(j).sv["status"], PyStatus(QUEUED))
              /\ get_job(j).sv["progress"] = PyInt("0")
              /\ get_job(j).sv["audio_path"] = inputs[j].audio_path
              /\ get_job(j).sv["params"] = inputs[j].params

\* one step keeps the progress of job j in order
ProgressStep(j) ==
    /\ "progress" \in store'[j].fields =>
           /\ store'[j].sv["progress"] \in JsonIntTexts
           /\ JsonInt(store'[j].sv["progress"]) \in 0..100
    /\ store'[j].fields # {} =>
           /\ store'[j].sv["status"] = QueuedText => store'[j].sv["progress"] = "0"
           /\ store'[j].sv["status"] = ProcessingText => store'[j].sv["progress"] = "10"
           /\ store'[j].sv["status"] = CompletedText => store'[j].sv["progress"] = "100"
    /\ ("progress" \in store[j].fields /\ store'[j].fields # {}) =>
           /\ "progress" \in store'[j].fields
           /\ JsonInt(store'[j].sv["progress"]) >= JsonInt(store[j].sv["progress"])
    /\ ("progress" \in store[j].fields /\ store[j].sv["status"] # FailedText
           /\ store'[j].fields # {} /\ store'[j].sv["status"] = FailedText) =>
           store'[j].sv["progress"] = store[j].sv["progress"]

\* C11: the stored progress of a job is an integer in 0..100 that no step lowers or
\* removes from a record that stays: 0 with Queued, 10 with Processing, 100 with
\* Completed, and the write of Failed leaves it as it was.
C11_Progress == [][\A j \in JobIds : ProgressStep(j)]_vars

\* C11 witness: a job went to Failed from Processing and its progress is still 10
C11_Witness ==
    \E j \in JobIds :
        /\ statusHist[j] = <<QueuedText, ProcessingText, FailedText>>
        /\ "progress" \in store[j].fields
        /\ store[j].sv["progress"] = "10"

\* the updates of job j that wrote started_at, and those that wrote completed_at:
\* update_status writes started_at with Processing and completed_at with a terminal status
StartedWrites(j) == {i \in 1..Len(statusHist[j]) : statusHist[j][i] = ProcessingText}
CompletedWrites(j) == {i \in 1..Len(statusHist[j]) : statusHist[j][i] \in TerminalText}

\* C12: started_at and completed_at are each written at most once per job, a record
\* with completed_at has a terminal status, and a Queued record has no started_at.
C12_TimestampsOnce ==
    \A j \in JobIds :
        /\ Cardinality(StartedWrites(j)) <= 1
        /\ Cardinality(CompletedWrites(j)) <= 1
        /\ store[j].fields # {} =>
              /\ "completed_at" \in store[j].fields => store[j].sv["status"] \in TerminalText
              /\ "started_at" \in store[j].fields => store[j].sv["status"] # QueuedText

\* C13: a publish that raises inside update_status does not reach the worker:
\* update_status returns normally, so no worker ever handles an exception raised
\* by publish.
C13_PublishSwallowed == \A w \in workers : excFrom[w] # "publish"

\* the error messages that are outcomes of job j: the missing-resource message for its
\* audio path, and the messages the transcription raises
JobErrors(j) ==
    TranscribeErrors \cup {"Audio file not found: " \o Str(inputs[j].audio_path)}

\* C14: a Redis failure is never recorded as a job outcome: the error of a record is
\* the missing-resource message or a message raised by the transcription, and a job
\* whose transcription returned a result is never written Failed.
C14_InfraNotOutcome ==
    \A j \in JobIds :
        /\ "error" \in store[j].fields => store[j].sv["error"] \in JobErrors(j)
        /\ (\E i \in 1..Len(transcribed[j]) : transcribed[j][i] \in TranscribeResults) =>
              (\A k \in 1..Len(statusHist[j]) : statusHist[j][k] # FailedText)

\* C15: a Redis call that raises in get_next_job or process_job does not end the
\* worker: it never leaves its loop, after every exception it comes to poll the
\* queue again, and again and again it is polling, with no job at hand, a queue from
\* which every id pushed so far has been popped.
C15_WorkerSurvives ==
    /\ [](\A w \in workers : pc[w] # "stopped")
    /\ \A w \in {1} : raised[w] ~> (pc[w] = "poll")
    /\ \A w \in {1} : []<>(pc[w] = "poll" /\ cur[w] = NoJob /\ queue = <<>>)

\* C15 witness: the write of Failed raised for the first job the worker dequeued, the
\* exception left process_job, and the worker went on to dequeue the second job
\* and brought it to a terminal status
C15_Witness ==
    /\ Len(deqLog) >= 2
    /\ FailedWriteRaised(deqLog[1].id)
    /\ ~Terminal(deqLog[1].id)
    /\ handed[deqLog[1].id] # {}
    /\ infra[deqLog[2].id] = {}
    /\ Terminal(deqLog[2].id)

\* C16: every update_status that wrote to the record of job j and is over published
\* one message on the channel of j, carrying j, the status written, and the progress
\* the record holds after the update.
C16_EventPerUpdate ==
    \A j \in JobIds :
        /\ statusHist[j] # <<>> =>
              Len(events[j]) = Len(statusHist[j]) - 1 - (IF Publishing(j) THEN 1 ELSE 0)
        /\ \A i \in 1..Len(events[j]) :
              /\ events[j][i].job_id = j
              /\ i + 1 <= Len(statusHist[j]) =>
                    EnumStr(events[j][i].status) = statusHist[j][i + 1]
              /\ events[j][i].progress =
                    IF events[j][i].stored = "" THEN PyNone ELSE PyInt(events[j][i].stored)

\* the messages of type "message" that subscriber sb has read, in the order read
IsMessage(m) == m.type = "message"
Received(sb) == SelectSeq(subs[sb].got, IsMessage)

\* C17: a subscriber reads only messages of its job's channel that were published
\* after it subscribed, each at most once and in the order published.
C17_LiveTap ==
    \A sb \in SubIds :
        \A i \in 1..Len(Received(sb)) :
            /\ Received(sb)[i].data.job_id = subs[sb].job_id
            /\ Received(sb)[i].seq > subs[sb].since
            /\ Received(sb)[i].seq <= Len(events[subs[sb].job_id])
            /\ Received(sb)[i].data = events[subs[sb].job_id][Received(sb)[i].seq]
            /\ \A k \in 1..(i - 1) : Received(sb)[k].seq < Received(sb)[i].seq

\* C17 witness: a subscriber that subscribed after the first message on its channel
\* has read a later one, while messages were published for another job
C17_Witness ==
    \E sb \in SubIds :
        /\ subs[sb].since >= 1
        /\ Len(Received(sb)) >= 1
        /\ \E j \in JobIds : j # subs[sb].job_id /\ events[j] # <<>>

\* the record of job j, if it is there, is as the update_status(PROCESSING) left it
StillProcessing(j) ==
    /\ statusHist[j][Len(statusHist[j])] = ProcessingText
    /\ store[j].fields # {} =>
          store[j].sv["status"] = ProcessingText /\ "error" \notin store[j].fields

\* the record of job j, if it is there, is Failed with error m
FailedWith(j, m) ==
    /\ statusHist[j][Len(statusHist[j])] = FailedText
    /\ store[j].fields # {} =>
          /\ store[j].sv["status"] = FailedText
          /\ "error" \in store[j].fields
          /\ store[j].sv["error"] = m
          /\ "result" \notin store[j].fields
          /\ "completed_at" \in store[j].fields

MissingMessage(j) == "Audio file not found: " \o Str(inputs[j].audio_path)

\* C18 as stated: a job whose audio did not exist when the worker tested it is never
\* passed to the transcription, was written Queued, Processing, Failed in that
\* order, and its record is Failed with the missing-resource message as error.
C18_Original ==
    \A j \in JobIds :
        (existsLog[j] = <<FALSE>> /\ Done(j)) =>
            /\ transcribed[j] = <<>>
            /\ statusHist[j] = <<QueuedText, ProcessingText, FailedText>>
            /\ FailedWith(j, MissingMessage(j))

\* C18 amended: a job whose audio did not exist when the worker tested it is never
\* passed to the transcription; it was written Queued, Processing, Failed in that
\* order and its record is Failed with the missing-resource message as error,
\* unless the HSET that writes Failed raised: then the record stays Processing.
C18_MissingAudio ==
    \A j \in JobIds :
        (existsLog[j] = <<FALSE>> /\ Done(j)) =>
            /\ transcribed[j] = <<>>
            /\ IF FailedWriteRaised(j)
               THEN statusHist[j] = <<QueuedText, ProcessingText>> /\ StillProcessing(j)
               ELSE /\ statusHist[j] = <<QueuedText, ProcessingText, FailedText>>
                    /\ FailedWith(j, MissingMessage(j))

\* C18 witness: process_job is over for a job without audio whose record is there,
\* and for another whose write of Failed raised
C18_Witness ==
    /\ \E j \in JobIds :
          existsLog[j] = <<FALSE>> /\ Done(j) /\ store[j].fields # {} /\ infra[j] = {}
    /\ \E j \in JobIds : existsLog[j] = <<FALSE>> /\ Done(j) /\ FailedWriteRaised(j)

\* C19 as stated: a job whose transcription raised message m has a record with
\* status Failed, error m, completed_at and no result, and Failed is the last
\* status written.
C19_Original ==
    \A j \in JobIds :
        \A m \in TranscribeErrors :
            (transcribed[j] = <<PyStr(m)>> /\ Done(j)) => FailedWith(j, m)

\* C19 amended: a job whose transcription raised message m has a record with status
\* Failed, error m, completed_at and no result, and Failed is the last status
\* written, unless the HSET that writes Failed raised: then the record stays
\* Processing, without error.
C19_TranscribeError ==
    \A j \in JobIds :
        \A m \in TranscribeErrors :
            (transcribed[j] = <<PyStr(m)>> /\ Done(j)) =>
                IF FailedWriteRaised(j) THEN StillProcessing(j) ELSE FailedWith(j, m)

\* C19 witness: process_job is over for a job whose transcription raised and whose
\* record is there, and for another whose write of Failed raised
C19_Witness ==
    /\ \E j \in JobIds, m \in TranscribeErrors :
          transcribed[j] = <<PyStr(m)>> /\ Done(j) /\ store[j].fields # {} /\ infra[j] = {}
    /\ \E j \in JobIds, m \in TranscribeErrors :
          transcribed[j] = <<PyStr(m)>> /\ Done(j) /\ FailedWriteRaised(j)

\* the record of job j after its transcription returned: Completed, progress 100,
\* completed_at set
CompletedRecord(j) ==
    /\ store[j].sv["status"] = CompletedText
    /\ store[j].sv["progress"] = "100"
    /\ "completed_at" \in store[j].fields
    /\ "result" \in store[j].fields

\* C20: a job whose transcription returned R has a record that is Completed,
\* progress 100, with completed_at, and whose result is R as the transcription
\* returned it.
C20_ResultVerbatim ==
    \A j \in JobIds :
        \A R \in TranscribeResults :
            (transcribed[j] = <<R>> /\ Done(j) /\ store[j].fields # {}) =>
                /\ CompletedRecord(j)
                /\ store[j].sv["result"] = JsonDumps(R)
                /\ get_job(j).sv["result"] = R

\* worker w is in the finally block of process_job for job j
Finishing(w, j) == pc[w] = "finally" /\ cur[w].job_id = j

\* a terminal status has been written for j, unless a Redis call raised, and the file
\* submitted with j, if it is there, is deleted by the step that ends process_job
\* when unlink does not fail
DeletesAudio(w, j) ==
    /\ Terminal(j) \/ infra[j] # {}
    /\ Str(inputs[j].audio_path) \in files =>
          ENABLED (process_job_finally(w, FALSE) /\ Str(inputs[j].audio_path) \notin files')

\* the step that ends process_job, with unlink failing or not, leaves every record as
\* it is and takes w back to run, to its loop test or to its except branch
LeavesRecord(w, j) ==
    (Finishing(w, j) /\ cur'[w].job_id # j) =>
        /\ store' = store
        /\ statusHist' = statusHist
        /\ pc'[w] = IF raised[w] THEN "sleep" ELSE "test"

\* C21: when process_job ends for a claimed job, the terminal status has been
\* written and the worker tries to delete the job's audio file; whatever comes of
\* that, the job's record is unchanged and the worker goes on with its loop.
C21_AudioDeleted ==
    /\ [](\A w \in workers, j \in JobIds : Finishing(w, j) => DeletesAudio(w, j))
    /\ [][\A w \in WorkerIds, j \in JobIds : LeavesRecord(w, j)]_vars

\* the places of process_job
InJob ==
    {"claimed", "pub_processing", "exists", "transcribe", "complete", "pub_completed", "except",
     "pub_failed", "finally"}

\* the job worker w held when its flag was set has its outcome written
OutcomeWritten(w) == Terminal(signalled[w].job_id)

\* worker w leaves its loop at the loop test and nowhere else
StopsAtTest(w) == (pc[w] # "stopped" /\ pc'[w] = "stopped") => (pc[w] = "test" /\ cur[w] = NoJob)

\* C22 as stated: a worker whose flag was set while it held a job has written a
\* terminal status for that job when it has left its loop, leaves the loop at the
\* loop test only, and calls get_next_job no more.
C22_Original ==
    /\ [](\A w \in workers :
            /\ (pc[w] = "stopped" /\ signalled[w].at \in InJob) => OutcomeWritten(w)
            /\ signalled[w].at \in InJob =>
                  signalled[w].polls = 0 /\ signalled[w].claims = 0)
    /\ [][\A w \in WorkerIds : StopsAtTest(w)]_vars

\* C22 amended: a worker whose flag was set while it held a job has written a
\* terminal status for that job when it has left its loop, unless the HSET that
\* writes Failed raised; it leaves the loop at the loop test only, and calls
\* get_next_job no more.
C22_NoCancel ==
    /\ [](\A w \in workers :
            /\ (pc[w] = "stopped" /\ signalled[w].at \in InJob) =>
                  (OutcomeWritten(w) \/ FailedWriteRaised(signalled[w].job_id))
            /\ signalled[w].at \in InJob =>
                  signalled[w].polls = 0 /\ signalled[w].claims = 0)
    /\ [][\A w \in WorkerIds : StopsAtTest(w)]_vars

\* C22 witness: the flag was set while the worker held a job that had no terminal
\* status yet, and the worker has left its loop with another id still queued
C22_Witness ==
    \E w \in workers :
        /\ pc[w] = "stopped"
        /\ signalled[w].at \in {"claimed", "pub_processing", "exists", "transcribe", "complete"}
        /\ w \in handed[signalled[w].job_id]
        /\ queue # <<>>

\* the fields update_status is given with each status the worker writes, and the
\* timestamp that belongs to the status
GivenFields(text) ==
    CASE text = ProcessingText -> {"status", "progress", "started_at"}
      [] text = CompletedText -> {"status", "progress", "result", "completed_at"}
      [] text = FailedText -> {"status", "error", "completed_at"}
      [] OTHER -> {"status"}

\* this step is an update_status that wrote to the record of j
Updated(j) == statusHist[j] # <<>> /\ statusHist'[j] # statusHist[j]

\* the step adds the given fields to the record of j and changes nothing else in
\* it, nor anything in another record
OnlyGiven(j) ==
    LET given == GivenFields(statusHist'[j][Len(statusHist'[j])])
    IN  /\ store'[j].fields = store[j].fields \cup given
        /\ \A f \in StrFields \ given : store'[j].sv[f] = store[j].sv[f]
        /\ \A f \in NumFields \ given : store'[j].nv[f] = store[j].nv[f]
        /\ \A k \in JobIds \ {j} : store'[k] = store[k]
        /\ expiry' = expiry

\* C23: update_status writes the fields it is given to the record of its id, leaves
\* every other field of that record and every other record as they were, also when
\* the key of its id is not in the store.
C23_UpdateFrame == [][\A j \in JobIds : Updated(j) => OnlyGiven(j)]_vars

\* C23 witness: a record updated to a terminal status still has what create_job
\* wrote, next to another job's record as created
C23_Witness ==
    \E j \in JobIds, k \in JobIds :
        /\ j # k
        /\ Terminal(j)
        /\ CreationFields \subseteq store[j].fields
        /\ store[j].sv["status"] \in TerminalText
        /\ store[j].sv["audio_path"] = Str(inputs[j].audio_path)
        /\ store[j].sv["params"] = JsonDumps(inputs[j].params)
        /\ store[j].nv["created_at"] = inputs[j].at
        /\ store[k] = JobData(k, inputs[k].audio_path, inputs[k].params, inputs[k].at)

\* the stored jobs that have the status asked for (all of them without a filter)
Matching(status) ==
    {j \in Keys : status = PyNone \/ store[j].sv["status"] = Str(status)}

\* C24: list_jobs returns at most `limit` jobs, newest first, each with the status
\* asked for, and all the stored jobs with that status when they are at most `limit`.
C24_ListJobs ==
    lastList.called =>
        LET ret == lastList.ret
        IN  /\ Len(ret) <= lastList.limit
            /\ \A a, b \in 1..Len(ret) : a < b => lastList.created[a] >= lastList.created[b]
            /\ \A a \in 1..Len(ret) : ret[a] \in Matching(lastList.status)
            /\ Cardinality(Matching(lastList.status)) <= lastList.limit =>
                  \A j \in Matching(lastList.status) : \E a \in 1..Len(ret) : ret[a] = j

\* C25: with a worker that keeps running, transcriptions that return or raise and no
\* failing Redis call, every job created comes to have a terminal status written, and
\* a queue that holds ids comes to be empty.
C25_Liveness ==
    /\ \A j \in JobIds : inputs[j].given ~> Terminal(j)
    /\ (queue # <<>>) ~> (queue = <<>>)

\* C26: every id get_next_job has removed from the queue is returned to the caller
\* as a job, for process_job to run on, when the call is over.
C26_NoDrop == \A j \in PoppedIds : handed[j] # {} \/ Fetching(j)

\* with its flag set, worker w comes to leave its loop
Stops(w) == shutdown_requested[w] ~> (pc[w] = "stopped")

\* the places of run outside get_next_job
OutOfPoll == InJob \cup {"test", "sleep"}

\* C27 as stated: after the flag is set the worker finishes the job it holds, or the
\* call of get_next_job it is in, and stops.
C27_Original ==
    /\ \A w \in {1} : Stops(w)
    /\ [](\A w \in workers :
            /\ signalled[w].at \in OutOfPoll =>
                  signalled[w].polls = 0 /\ signalled[w].claims = 0
            /\ signalled[w].at \in {"poll", "get_job"} =>
                  signalled[w].polls <= 1 /\ signalled[w].claims = 0
            /\ signalled[w].at = "get_job" => signalled[w].polls = 0)

\* C27 amended: after the flag is set the worker finishes the job it holds, or the
\* call of get_next_job it is in and the job that call returns, and stops; it calls
\* get_next_job no second time.
C27_StopsAfterFlag ==
    /\ \A w \in {1} : Stops(w)
    /\ [](\A w \in workers :
            /\ signalled[w].at \in OutOfPoll =>
                  signalled[w].polls = 0 /\ signalled[w].claims = 0
            /\ signalled[w].at \in {"poll", "get_job"} =>
                  signalled[w].polls <= 1 /\ signalled[w].claims <= 1
            /\ signalled[w].at = "get_job" => signalled[w].polls = 0)

\* C27 witness: the flag was set while the worker was in get_next_job, the call
\* returned a job, and the worker has processed it and left its loop
C27_Witness ==
    \E w \in workers :
        /\ pc[w] = "stopped"
        /\ signalled[w].at = "poll"
        /\ signalled[w].claims = 1
        /\ \E j \in JobIds : w \in handed[j] /\ Terminal(j)
====
